---- MODULE Spec2Model ----
(***************************************************************************)
(* Extraction pipeline of the WooWonder Data Extractor (src/app.py):       *)
(*   make_api_request     the retrying HTTP transport                      *)
(*   bulk_fetch_articles  the paginating accumulator built on it           *)
(*                                                                         *)
(* Python dicts are functions from a set of keys (strings) to values; an   *)
(* optional value (None or an object) is a sequence of length 0 or 1.      *)
(* A batch of n article records delivered in answer to page p is the       *)
(* record [page |-> p, n |-> n]; a list of articles is the sequence of the *)
(* batches it was extended with, so its length is the sum of their n.      *)
(***************************************************************************)
EXTENDS Integers, Sequences, FiniteSets, TLC

(* ------------------------------ bounds --------------------------------- *)

\* largest number of pages a drawn (base request, target) pair can need
MaxIter == 5

\* largest `retries` argument drawn for a direct make_api_request call
MaxRetries == 3

\* longest list 1..n of user identifiers drawn (besides the list 1..25)
MaxIds == 5

\* largest number of chunks a drawn (identifier list, batch size) pair makes
MaxChunks == 3

\* records in one list handed to a normalizer
MaxRecords == 2

(* --------------------------- program constants ------------------------- *)

\* "API max is 1000"
API_CEILING == 1000

\* post_data.get('limit', 1000)
DEFAULT_LIMIT == 1000

\* retries=3
DEFAULT_RETRIES == 3

\* result.get('api_status') == 200
STATUS_OK == 200

(* ------------------------------ Python values -------------------------- *)

None == << >>

Some(x) == << x >>

EmptyDict == << >>

\* d.get(k, default)
Get(d, k, default) == IF k \in DOMAIN d THEN d[k] ELSE default

\* d[k] = v
Put(d, k, v) == [x \in (DOMAIN d) \cup {k} |-> IF x = k THEN v ELSE d[x]]

\* truth value of an optional dict: None and {} are both false
Truthy(opt) == opt # None /\ DOMAIN opt[1] # {}

Min(a, b) == IF a <= b THEN a ELSE b

CeilDiv(a, b) == (a + b - 1) \div b

\* len() of a list of articles
RECURSIVE NumRecords(_)
NumRecords(batches) ==
    IF batches = << >> THEN 0
    ELSE batches[1].n + NumRecords(Tail(batches))

(* ------------------------------- state --------------------------------- *)

VARIABLES
    json_error_is_request_exception,
        \* the installed `requests`: TRUE when the error Response.json()
        \* raises is a RequestException (requests >= 2.27), FALSE when it is
        \* a plain json.JSONDecodeError (older releases)
    api_pc,             \* make_api_request: "idle", "running", "returned"
    current_post_data,  \* the post_data object handed to make_api_request
    retries,            \* its retries argument
    attempt,            \* its loop variable
    http_log,           \* the HTTP attempts of the current call, in order
    sleeps,             \* the time.sleep() durations of the current call
    api_errors,         \* st.error() messages emitted by the current call
    api_result,         \* its return value (None or Some(payload))
    st_errors,          \* every st.error() message shown so far
    ppc,                \* bulk_fetch_articles: "off", "loop", "call", "returned"
    post_data,          \* its base request
    total_limit,        \* its target
    all_articles,
    total_fetched,
    page,
    current_limit,
    requests,           \* the request of each page as handed to the transport
    responses,          \* what the transport returned for each page
    rate_sleeps,        \* number of time.sleep(1) pauses taken
    caller_pc,          \* the articles tab around the bulk fetch: "bulk", "done"
    articles_data,      \* the caller's articles_data (lines 467, 480)
    status_text,        \* what status_text.text() was given, in order
    progress_bar,       \* what progress_bar.progress() was given, in order
    upc,                \* users tab batch loop: "off", "loop", "call",
                        \* "done", "raised"
    user_ids,           \* the identifiers, each a sequence of characters
    batch_size,
    batch_i,            \* the loop variable i
    all_users_data,
    chunk_calls,        \* the post_data of each chunk as handed to the transport
    chunk_results,      \* what the transport returned for each chunk
    users_sleeps,       \* number of time.sleep(0.5) pauses taken
    npc,                \* process_articles_data / process_users_data: the
                        \* statement about to run, "off", "done" or "raised"
    records_in,         \* the list argument (articles_data / users_data)
    rec_idx,            \* position of the for loop in it
    processed,          \* processed_article / processed_user
    date_idx,           \* position of the date_field loop
    processed_list,     \* processed_articles / processed_users
    writes,             \* the keys assigned in processed, in order
    raised              \* the exception that left the function, or "none"

transport_vars ==
    << api_pc, current_post_data, retries, attempt, http_log, sleeps,
       api_errors, api_result, st_errors >>

bulk_vars ==
    << ppc, post_data, total_limit, all_articles, total_fetched, page,
       current_limit, requests, responses, rate_sleeps >>

caller_vars == << caller_pc, articles_data, status_text, progress_bar >>

\* everything that belongs to a caller of the transport
client_vars == << bulk_vars, caller_vars >>

users_vars ==
    << upc, user_ids, batch_size, batch_i, all_users_data, chunk_calls,
       chunk_results, users_sleeps >>

norm_vars ==
    << npc, records_in, rec_idx, processed, date_idx, processed_list, writes,
       raised >>

\* everything outside the bulk fetch, its caller and the transport
outside_bulk == << users_vars, norm_vars >>

vars ==
    << json_error_is_request_exception, transport_vars, client_vars,
       users_vars, norm_vars >>

(* ------------------------------ the server ----------------------------- *)

SERVER_KEY == "server_key_value"

\* how many records an answer to a request of limit L may carry
Counts(L) == {n \in {0, L - 1, L, L + 1} : n >= 0}

\* the well-formed payloads the upstream API may answer a request with
ServerPayloads(L) ==
    {EmptyDict, [api_status |-> 400], [api_status |-> STATUS_OK]}
        \cup {[api_status |-> STATUS_OK, articles |-> n] : n \in Counts(L)}

\* how many identifiers a request for users names
\* (post_data['user_ids'] of the chunk in flight)
WireIds == IF batch_i + batch_size <= Len(user_ids)
           THEN batch_size ELSE Len(user_ids) - batch_i

\* the well-formed payloads the upstream API may answer a users chunk with
UsersPayloads(k) ==
    {EmptyDict, [api_status |-> 400], [api_status |-> STATUS_OK]}
        \cup {[api_status |-> STATUS_OK, users |-> n] : n \in {0, 1, k}}

\* the limit the request on the wire asks for (1 when it names none)
WireLimit == IF Truthy(current_post_data)
             THEN Get(current_post_data[1], "limit", 1) ELSE 1

(* ------------------ make_api_request (lines 44-69) --------------------- *)

\* line 50: `if post_data:` picks the write-style call
Method(pd) == IF Truthy(pd) THEN "POST" ELSE "GET"

\* lines 50-51: the credential goes into the caller's object itself
Inject(pd) ==
    IF Truthy(pd) THEN Some(Put(pd[1], "server_key", SERVER_KEY)) ELSE pd

\* a backoff that grows linearly instead: 2 * attempt
BackoffLinear(a) == 2 * a

\* line 63: time.sleep(2 ** attempt)
Backoff(a) == 2 ^ a

\* an off-by-one final-attempt test: attempt == retries
LastAttemptOffByOne(a, r) == a = r

\* line 60: `if attempt == retries - 1`
LastAttempt(a, r) == a = r - 1

\* lines 48-54: one HTTP attempt goes out and ends with `outcome`
SendAttempt(outcome) ==
    /\ current_post_data' = Inject(current_post_data)
    /\ http_log' = Append(http_log,
                          [method  |-> Method(current_post_data),
                           data    |-> Inject(current_post_data),
                           outcome |-> outcome])

\* st.error(...) inside make_api_request
ApiError(msg) ==
    /\ api_errors' = Append(api_errors, [msg |-> msg, n |-> retries])
    /\ st_errors' = Append(st_errors, [msg |-> msg, n |-> retries])

\* lines 59-63, and line 69 when the for loop runs out
OnRequestException ==
    IF LastAttempt(attempt, retries)
    THEN /\ ApiError("API request failed after n attempts")
         /\ api_result' = None
         /\ api_pc' = "returned"
         /\ UNCHANGED << attempt, sleeps >>
    ELSE /\ sleeps' = Append(sleeps, Backoff(attempt))
         /\ attempt' = attempt + 1
         /\ api_result' = None
         /\ api_pc' = IF attempt + 1 < retries THEN "running" ELSE "returned"
         /\ UNCHANGED << api_errors, st_errors >>

\* lines 65-67
OnJSONDecodeError ==
    /\ ApiError("Invalid JSON response from API")
    /\ api_result' = None
    /\ api_pc' = "returned"
    /\ UNCHANGED << attempt, sleeps >>

\* lines 56-57: a 2xx answer whose body parses
ResponseOk ==
    /\ api_pc = "running"
    /\ SendAttempt("ok")
    /\ \E payload \in (IF upc = "call" THEN UsersPayloads(WireIds)
                        ELSE ServerPayloads(WireLimit)) :
          api_result' = Some(payload)
    /\ api_pc' = "returned"
    /\ UNCHANGED << retries, attempt, sleeps, api_errors, st_errors >>
    /\ UNCHANGED << json_error_is_request_exception, client_vars,
                    users_vars, norm_vars >>

\* requests.post/get or raise_for_status raises: connection error, timeout,
\* non-2xx status
NetworkFailure ==
    /\ api_pc = "running"
    /\ SendAttempt("network")
    /\ OnRequestException
    /\ UNCHANGED << retries, json_error_is_request_exception, client_vars,
                    users_vars, norm_vars >>

\* response.json() raises on a 2xx answer whose body is not JSON; Python
\* runs the first except clause that matches the error's class
DecodeFailure ==
    /\ api_pc = "running"
    /\ SendAttempt("decode")
    /\ IF json_error_is_request_exception
       THEN OnRequestException
       ELSE OnJSONDecodeError
    /\ UNCHANGED << retries, json_error_is_request_exception, client_vars,
                    users_vars, norm_vars >>

\* a call of make_api_request(endpoint, pd, r) begins
BeginCall(pd, r) ==
    /\ api_pc' = IF r > 0 THEN "running" ELSE "returned"
    /\ current_post_data' = pd
    /\ retries' = r
    /\ attempt' = 0
    /\ http_log' = << >>
    /\ sleeps' = << >>
    /\ api_errors' = << >>
    /\ api_result' = None

(* ---------------- bulk_fetch_articles (lines 91-137) ------------------- *)

\* the caller's limit taken as it is, without the ceiling
ApiLimitUncapped(pd) == Get(pd, "limit", DEFAULT_LIMIT)

\* line 95
ApiLimit(pd) == Min(API_CEILING, Get(pd, "limit", DEFAULT_LIMIT))

\* line 94
CurrentOffset(pd) == Get(pd, "offset", 0)

\* lines 102-103
CurrentLimit(pd, total, fetched) == Min(ApiLimit(pd), total - fetched)

\* a request whose offset is not advanced by what was fetched
CurrentPostDataStaleOffset(pd, total, fetched) ==
    Put(Put(pd, "limit", CurrentLimit(pd, total, fetched)),
        "offset", CurrentOffset(pd))

\* lines 106-108
CurrentPostData(pd, total, fetched) ==
    Put(Put(pd, "limit", CurrentLimit(pd, total, fetched)),
        "offset", CurrentOffset(pd) + fetched)

\* line 116
Succeeded(result) ==
    Truthy(result) /\ Get(result[1], "api_status", 0) = STATUS_OK

\* line 117: len(result.get('articles', []))
BatchLen(result) == Get(result[1], "articles", 0)

\* line 123
Extend(articles, p, n) == Append(articles, [page |-> p, n |-> n])

\* a fraction num/den of the progress bar
Fraction(num, den) == [num |-> num, den |-> den]

\* lines 476-477: min(len(articles_data) / target_limit if articles_data
\* else 0, 1.0), read from the caller's articles_data when it is called
CurrentProgress(data, target) ==
    IF data = << >> THEN Fraction(0, 1)
    ELSE IF NumRecords(data) >= target THEN Fraction(1, 1)
    ELSE Fraction(NumRecords(data), target)

\* line 111: f"Fetching page {page} (offset {offset}, limit {limit})"
FetchingMessage(p, offset, limit) ==
    [msg |-> "Fetching page", page |-> p, offset |-> offset, limit |-> limit]

\* lines 110-111, 474-478: progress_callback(message)
ProgressCallback(message) ==
    /\ status_text' = Append(status_text, message)
    /\ progress_bar' = Append(progress_bar,
                              CurrentProgress(articles_data, total_limit))

\* the caller's mapping, were the request the very same object
CallerPostDataAliased(base, request) == request

\* line 105: the request is post_data.copy(), another object, so what is
\* assigned to the request (lines 106-107, line 51) leaves the caller's
\* mapping as it was
CallerPostData(base, request) == base

\* lines 100-114: one more page is asked for
BulkIterate ==
    /\ ppc = "loop"
    /\ total_fetched < total_limit
    /\ ProgressCallback(FetchingMessage(page,
            CurrentPostData(post_data, total_limit, total_fetched).offset,
            CurrentLimit(post_data, total_limit, total_fetched)))
    /\ UNCHANGED << caller_pc, articles_data, outside_bulk >>
    /\ current_limit' = CurrentLimit(post_data, total_limit, total_fetched)
    /\ BeginCall(Some(CurrentPostData(post_data, total_limit, total_fetched)),
                 DEFAULT_RETRIES)
    /\ requests' = Append(requests,
                     CurrentPostData(post_data, total_limit, total_fetched))
    /\ ppc' = "call"
    /\ post_data' =
          CallerPostData(post_data,
                         CurrentPostData(post_data, total_limit, total_fetched))
    /\ UNCHANGED << total_limit, all_articles, total_fetched, page,
                    responses, rate_sleeps, st_errors,
                    json_error_is_request_exception >>

\* line 100 false, line 137
BulkExit ==
    /\ ppc = "loop"
    /\ ~(total_fetched < total_limit)
    /\ ppc' = "returned"
    /\ UNCHANGED << post_data, total_limit, all_articles, total_fetched, page,
                    current_limit, requests, responses, rate_sleeps >>
    /\ UNCHANGED << transport_vars, json_error_is_request_exception >>
    /\ UNCHANGED << caller_vars, outside_bulk >>

\* lines 480-482: the caller gets the list back and completes the display
BulkReturned ==
    /\ ppc = "returned"
    /\ caller_pc = "bulk"
    /\ articles_data' = all_articles
    /\ progress_bar' = Append(progress_bar, Fraction(1, 1))
    /\ status_text' = Append(status_text,
                             [msg |-> "Bulk fetch completed!", page |-> 0,
                              offset |-> 0, limit |-> 0])
    /\ caller_pc' = "done"
    /\ UNCHANGED << transport_vars, bulk_vars, outside_bulk,
                    json_error_is_request_exception >>

\* the transport has returned to line 114
Received ==
    /\ ppc = "call"
    /\ api_pc = "returned"
    /\ api_pc' = "idle"
    /\ responses' = Append(responses, api_result)
    /\ post_data' = CallerPostData(post_data, current_post_data[1])
    /\ UNCHANGED << current_post_data, retries, attempt, http_log, sleeps,
                    api_errors, api_result >>
    /\ UNCHANGED << total_limit, current_limit, requests,
                    json_error_is_request_exception >>
    /\ UNCHANGED << caller_vars, outside_bulk >>

\* a failure branch that throws away what was accumulated
BulkFailedDiscards ==
    /\ Received
    /\ ~Succeeded(api_result)
    /\ st_errors' = Append(st_errors,
                           [msg |-> "Failed to fetch page n. Stopping bulk fetch.",
                            n |-> page])
    /\ all_articles' = << >>
    /\ ppc' = "returned"
    /\ UNCHANGED << total_fetched, page, rate_sleeps >>

\* lines 130-132, 137
BulkFailed ==
    /\ Received
    /\ ~Succeeded(api_result)
    /\ st_errors' = Append(st_errors,
                           [msg |-> "Failed to fetch page n. Stopping bulk fetch.",
                            n |-> page])
    /\ ppc' = "returned"
    /\ UNCHANGED << all_articles, total_fetched, page, rate_sleeps >>

\* lines 119-121, 137
BulkEmpty ==
    /\ Received
    /\ Succeeded(api_result)
    /\ BatchLen(api_result) = 0
    /\ ppc' = "returned"
    /\ UNCHANGED << all_articles, total_fetched, page, rate_sleeps, st_errors >>

\* a short batch that does not end the loop
BulkShortContinues ==
    /\ Received
    /\ Succeeded(api_result)
    /\ BatchLen(api_result) # 0
    /\ BatchLen(api_result) < current_limit
    /\ all_articles' = Extend(all_articles, page, BatchLen(api_result))
    /\ total_fetched' = total_fetched + BatchLen(api_result)
    /\ page' = page + 1
    /\ rate_sleeps' = rate_sleeps + 1
    /\ ppc' = "loop"
    /\ UNCHANGED st_errors

\* lines 123-128, 137
BulkShort ==
    /\ Received
    /\ Succeeded(api_result)
    /\ BatchLen(api_result) # 0
    /\ BatchLen(api_result) < current_limit
    /\ all_articles' = Extend(all_articles, page, BatchLen(api_result))
    /\ total_fetched' = total_fetched + BatchLen(api_result)
    /\ ppc' = "returned"
    /\ UNCHANGED << page, rate_sleeps, st_errors >>

\* a full batch appended without advancing total_fetched
BulkContinueNoAdvance ==
    /\ Received
    /\ Succeeded(api_result)
    /\ BatchLen(api_result) # 0
    /\ ~(BatchLen(api_result) < current_limit)
    /\ all_articles' = Extend(all_articles, page, BatchLen(api_result))
    /\ total_fetched' = total_fetched
    /\ page' = page + 1
    /\ rate_sleeps' = rate_sleeps + 1
    /\ ppc' = "loop"
    /\ UNCHANGED st_errors

\* a full batch after which the page number is not advanced
BulkContinuePageStuck ==
    /\ Received
    /\ Succeeded(api_result)
    /\ BatchLen(api_result) # 0
    /\ ~(BatchLen(api_result) < current_limit)
    /\ all_articles' = Extend(all_articles, page, BatchLen(api_result))
    /\ total_fetched' = total_fetched + BatchLen(api_result)
    /\ page' = page
    /\ rate_sleeps' = rate_sleeps + 1
    /\ ppc' = "loop"
    /\ UNCHANGED st_errors

\* lines 123-127, 134-135
BulkContinue ==
    /\ Received
    /\ Succeeded(api_result)
    /\ BatchLen(api_result) # 0
    /\ ~(BatchLen(api_result) < current_limit)
    /\ all_articles' = Extend(all_articles, page, BatchLen(api_result))
    /\ total_fetched' = total_fetched + BatchLen(api_result)
    /\ page' = page + 1
    /\ rate_sleeps' = rate_sleeps + 1
    /\ ppc' = "loop"
    /\ UNCHANGED st_errors

(* ---------------- users tab batch loop (lines 324-347) ----------------- *)

\* a chunk one identifier short
BatchIdsShort(ids, i, b) ==
    SubSeq(ids, i + 1, Min(i + b, Len(ids)) - 1)

\* line 334: user_ids[i:i+batch_size]
BatchIds(ids, i, b) == SubSeq(ids, i + 1, Min(i + b, Len(ids)))

\* line 335: ','.join(batch_ids)
RECURSIVE Join(_)
Join(ids) ==
    IF ids = << >> THEN ""
    ELSE IF Len(ids) = 1 THEN ids[1]
    ELSE ids[1] \o "," \o Join(Tail(ids))

\* line 337: f"Processing batch {i//batch_size + 1}/{(len(user_ids)-1)//batch_size + 1}"
BatchMessage(i, b, n) ==
    [msg |-> "Processing batch", batch |-> i \div b + 1,
     total |-> (n - 1) \div b + 1]

\* line 343: len(result.get('users', []))
UsersLen(result) == Get(result[1], "users", 0)

\* line 344: all_users_data.extend(batch_users)
ExtendUsers(users, chunk, n) ==
    IF n = 0 THEN users ELSE Append(users, [chunk |-> chunk, n |-> n])

\* lines 333-340: the next chunk is asked for
UsersIterate ==
    /\ upc = "loop"
    /\ batch_i < Len(user_ids)
    /\ status_text' = Append(status_text,
                             BatchMessage(batch_i, batch_size, Len(user_ids)))
    /\ chunk_calls' = Append(chunk_calls,
          [ids |-> BatchIds(user_ids, batch_i, batch_size),
           post_data |->
               [user_ids |-> Join(BatchIds(user_ids, batch_i, batch_size))]])
    /\ BeginCall(
          Some([user_ids |-> Join(BatchIds(user_ids, batch_i, batch_size))]),
          DEFAULT_RETRIES)
    /\ upc' = "call"
    /\ UNCHANGED << user_ids, batch_size, batch_i, all_users_data,
                    chunk_results, users_sleeps >>
    /\ UNCHANGED << caller_pc, articles_data, progress_bar, st_errors,
                    bulk_vars, norm_vars, json_error_is_request_exception >>

\* line 333: range(0, len(user_ids), batch_size) is used up
UsersExit ==
    /\ upc = "loop"
    /\ ~(batch_i < Len(user_ids))
    /\ upc' = "done"
    /\ UNCHANGED << user_ids, batch_size, batch_i, all_users_data,
                    chunk_calls, chunk_results, users_sleeps >>
    /\ UNCHANGED << transport_vars, client_vars, norm_vars,
                    json_error_is_request_exception >>

\* lines 346-347: progress_bar.progress((i + batch_size) / len(user_ids)),
\* which raises StreamlitAPIException for a value above 1.0, then
\* time.sleep(0.5) and the next i
ChunkEnd ==
    /\ progress_bar' = Append(progress_bar,
                              Fraction(batch_i + batch_size, Len(user_ids)))
    /\ IF batch_i + batch_size > Len(user_ids)
       THEN /\ upc' = "raised"
            /\ UNCHANGED << batch_i, users_sleeps >>
       ELSE /\ upc' = "loop"
            /\ batch_i' = batch_i + batch_size
            /\ users_sleeps' = users_sleeps + 1

\* the transport has returned to line 340
UsersReceived ==
    /\ upc = "call"
    /\ api_pc = "returned"
    /\ api_pc' = "idle"
    /\ chunk_results' = Append(chunk_results, api_result)
    /\ UNCHANGED << current_post_data, retries, attempt, http_log, sleeps,
                    api_errors, api_result, st_errors >>
    /\ UNCHANGED << user_ids, batch_size, chunk_calls >>
    /\ UNCHANGED << caller_pc, articles_data, status_text, bulk_vars,
                    norm_vars, json_error_is_request_exception >>

\* lines 342-347: the chunk succeeded
UsersChunkOk ==
    /\ UsersReceived
    /\ Succeeded(api_result)
    /\ all_users_data' = ExtendUsers(all_users_data, Len(chunk_calls),
                                     UsersLen(api_result))
    /\ ChunkEnd

\* a failed chunk that ends the loop
UsersChunkFailedAborts ==
    /\ UsersReceived
    /\ ~Succeeded(api_result)
    /\ upc' = "done"
    /\ UNCHANGED << all_users_data, progress_bar, batch_i, users_sleeps >>

\* lines 342, 346-347: the chunk failed; nothing is added
UsersChunkFailed ==
    /\ UsersReceived
    /\ ~Succeeded(api_result)
    /\ UNCHANGED all_users_data
    /\ ChunkEnd

(* ------------- record values of the normalizers (JSON data) ------------ *)

\* A field value is the pair << Python type, payload >>. An int is kept as
\* its decimal numeral, so that timestamps of any size can be written.
VNone == << "none", "" >>

VInt(numeral) == << "int", numeral >>

VStr(str) == << "str", str >>

VDict(d) == << "dict", d >>

VList(items) == << "list", items >>

\* `not value`: None, 0, '', {} and [] are false
Falsy(val) ==
    \/ val[1] = "none"
    \/ val[1] = "int" /\ val[2] = "0"
    \/ val[1] = "str" /\ val[2] = ""
    \/ val[1] = "dict" /\ DOMAIN val[2] = {}
    \/ val[1] = "list" /\ val[2] = << >>

AUTHOR_JSON == "{\"username\": \"ann\", \"email\": \"ann@x.org\", \"id\": \"7\"}"

AuthorMapping ==
    [username |-> VStr("ann"), email |-> VStr("ann@x.org"), id |-> VStr("7")]

NOTIFICATION_JSON == "{\"e_liked\": \"1\"}"

NotificationMapping == [e_liked |-> VStr("1")]

\* json.loads(str) on the strings used here: the value, or ok = FALSE for
\* json.JSONDecodeError
JsonLoads(str) ==
    CASE str = AUTHOR_JSON -> [ok |-> TRUE, val |-> VDict(AuthorMapping)]
      [] str = NOTIFICATION_JSON ->
            [ok |-> TRUE, val |-> VDict(NotificationMapping)]
      [] str = "[1, 2]" ->
            [ok |-> TRUE, val |-> VList(<< VInt("1"), VInt("2") >>)]
      [] str = "5" -> [ok |-> TRUE, val |-> VInt("5")]
      [] str = "0" -> [ok |-> TRUE, val |-> VInt("0")]
      [] str = "1700000000" -> [ok |-> TRUE, val |-> VInt("1700000000")]
      [] str = "null" -> [ok |-> TRUE, val |-> VNone]
      [] OTHER -> [ok |-> FALSE, val |-> VNone]

\* the strings int() accepts, among those used here
IntStrings == {"0", "5", "1700000000"}

\* int(value): the int, or ok = FALSE for ValueError / TypeError
IntOf(val) ==
    CASE val[1] = "int" -> [ok |-> TRUE, val |-> val[2]]
      [] val[1] = "str" /\ val[2] \in IntStrings -> [ok |-> TRUE, val |-> val[2]]
      [] OTHER -> [ok |-> FALSE, val |-> "0"]

\* datetime.fromtimestamp(timestamp): "ok", or the exception it raises.
\* A year beyond 9999 is a ValueError; a value the platform's localtime
\* cannot take is an OSError (or OverflowError).
FromTimestamp(numeral) ==
    CASE numeral \in {"0", "5", "1700000000"} -> "ok"
      [] numeral = "1700000000000" -> "ValueError"
      [] OTHER -> "OSError"

\* .strftime('%Y-%m-%d %H:%M:%S') of that datetime
Strftime(numeral) == VStr("strftime(" \o numeral \o ")")

\* the keys f'{prefix}{key}' for the keys of a nested mapping
Prefixed(prefix, keys) == {prefix \o k : k \in keys}

\* for key in keys: target[f'{prefix}{key}'] = nested[key]
Flatten(target, prefix, nested, keys) ==
    [nk \in (DOMAIN target) \cup Prefixed(prefix, keys) |->
        IF nk \in Prefixed(prefix, keys)
        THEN nested[CHOOSE k \in keys : prefix \o k = nk]
        ELSE target[nk]]

\* the assignment counts after one more assignment to each of `keys`
Written(counts, keys) ==
    [k \in (DOMAIN counts) \cup keys |->
        Get(counts, k, 0) + (IF k \in keys THEN 1 ELSE 0)]

(* -------------- extract_author_info (lines 71-89) ---------------------- *)

\* lines 77-81: the value after the optional json.loads, or ok = FALSE
AuthorDecoded(author_data) ==
    IF author_data[1] = "str" THEN JsonLoads(author_data[2])
    ELSE [ok |-> TRUE, val |-> author_data]

\* the pair (username, email)
extract_author_info(author_data) ==
    IF Falsy(author_data) THEN << VNone, VNone >>
    ELSE IF ~AuthorDecoded(author_data).ok THEN << VNone, VNone >>
    ELSE IF AuthorDecoded(author_data).val[1] = "dict"
    THEN << Get(AuthorDecoded(author_data).val[2], "username", VStr("")),
            Get(AuthorDecoded(author_data).val[2], "email", VStr("")) >>
    ELSE << VNone, VNone >>

(* -------------- process_articles_data (lines 139-176) ------------------ *)

\* the record the for loop is at
Current == records_in[rec_idx]

\* line 147: article.get('author', {})
AuthorData(article) == Get(article, "author", VDict(EmptyDict))

\* every key of the author mapping, username and email included
AuthorFlattenKeysAll(author) == DOMAIN author

\* lines 155-156: the keys that are expanded
AuthorFlattenKeys(author) == (DOMAIN author) \ {"username", "email"}

ArticleDateFields == << "time", "created_at", "updated_at" >>

UserDateFields == << "lastseen", "last_data_update", "point_day_expire" >>

\* lines 167-172 / 206-211: what the conversion of one date field does:
\* "skip" (absent or false), "caught" (ValueError / TypeError), "add", or
\* the name of the exception that is not caught
DateOutcome(rec, field) ==
    IF ~(field \in DOMAIN rec /\ ~Falsy(rec[field])) THEN "skip"
    ELSE IF ~IntOf(rec[field]).ok THEN "caught"
    ELSE IF FromTimestamp(IntOf(rec[field]).val) = "ok" THEN "add"
    ELSE IF FromTimestamp(IntOf(rec[field]).val) = "ValueError" THEN "caught"
    ELSE FromTimestamp(IntOf(rec[field]).val)

\* lines 166-172 / 205-211: one turn of the date_field loop
ConvertDate(fields, next_pc) ==
    /\ IF DateOutcome(processed, fields[date_idx]) = "add"
       THEN /\ processed' =
                  Put(processed, fields[date_idx] \o "_readable",
                      Strftime(IntOf(processed[fields[date_idx]]).val))
            /\ writes' = Written(writes, {fields[date_idx] \o "_readable"})
       ELSE UNCHANGED << processed, writes >>
    /\ IF DateOutcome(processed, fields[date_idx])
            \in {"skip", "caught", "add"}
       THEN /\ raised' = raised
            /\ date_idx' = IF date_idx < Len(fields) THEN date_idx + 1 ELSE 1
            /\ npc' = IF date_idx < Len(fields) THEN npc ELSE next_pc
       ELSE /\ raised' = DateOutcome(processed, fields[date_idx])
            /\ npc' = "raised"
            /\ date_idx' = date_idx
    /\ UNCHANGED << records_in, rec_idx, processed_list >>
    /\ UNCHANGED << transport_vars, client_vars, users_vars,
                    json_error_is_request_exception >>

\* what no normalizer step touches
NormFrame ==
    /\ UNCHANGED << records_in, date_idx, raised >>
    /\ UNCHANGED << transport_vars, client_vars, users_vars,
                    json_error_is_request_exception >>

\* line 144: processed_article = article.copy()
ArticleCopy ==
    /\ npc = "a_copy"
    /\ processed' = Current
    /\ writes' = EmptyDict
    /\ npc' = "a_author"
    /\ UNCHANGED << rec_idx, processed_list >>
    /\ NormFrame

\* lines 147-151
ArticleAuthor ==
    /\ npc = "a_author"
    /\ processed' =
          Put(Put(processed, "author_username",
                  extract_author_info(AuthorData(Current))[1]),
              "author_email", extract_author_info(AuthorData(Current))[2])
    /\ writes' = Written(writes, {"author_username", "author_email"})
    /\ npc' = "a_flatten"
    /\ UNCHANGED << rec_idx, processed_list >>
    /\ NormFrame

\* lines 154-157
ArticleFlatten ==
    /\ npc = "a_flatten"
    /\ IF AuthorData(Current)[1] = "dict"
       THEN /\ processed' =
                  Flatten(processed, "author_", AuthorData(Current)[2],
                          AuthorFlattenKeys(AuthorData(Current)[2]))
            /\ writes' =
                  Written(writes,
                          Prefixed("author_",
                                   AuthorFlattenKeys(AuthorData(Current)[2])))
       ELSE UNCHANGED << processed, writes >>
    /\ npc' = "a_category"
    /\ UNCHANGED << rec_idx, processed_list >>
    /\ NormFrame

\* lines 160-163
ArticleCategory ==
    /\ npc = "a_category"
    /\ IF "category" \in DOMAIN Current /\ Current["category"][1] = "dict"
       THEN /\ processed' =
                  Put(Put(processed, "category_name",
                          Get(Current["category"][2], "name", VStr(""))),
                      "category_id",
                      Get(Current["category"][2], "id", VStr("")))
            /\ writes' = Written(writes, {"category_name", "category_id"})
       ELSE UNCHANGED << processed, writes >>
    /\ npc' = "a_dates"
    /\ UNCHANGED << rec_idx, processed_list >>
    /\ NormFrame

\* lines 166-172
ArticleDate ==
    /\ npc = "a_dates"
    /\ ConvertDate(ArticleDateFields, "a_append")

\* lines 174-176: append, then the next article or return
ArticleAppend ==
    /\ npc = "a_append"
    /\ processed_list' = Append(processed_list, processed)
    /\ rec_idx' = IF rec_idx < Len(records_in) THEN rec_idx + 1 ELSE rec_idx
    /\ npc' = IF rec_idx < Len(records_in) THEN "a_copy" ELSE "done"
    /\ UNCHANGED << processed, writes >>
    /\ NormFrame

(* ---------------- process_users_data (lines 178-215) ------------------- *)

\* line 183: processed_user = user.copy()
UserCopy ==
    /\ npc = "u_copy"
    /\ processed' = Current
    /\ writes' = EmptyDict
    /\ npc' = "u_details"
    /\ UNCHANGED << rec_idx, processed_list >>
    /\ NormFrame

\* lines 186-189
UserDetails ==
    /\ npc = "u_details"
    /\ IF "details" \in DOMAIN Current /\ Current["details"][1] = "dict"
       THEN /\ processed' =
                  Flatten(processed, "details_", Current["details"][2],
                          DOMAIN Current["details"][2])
            /\ writes' =
                  Written(writes,
                          Prefixed("details_", DOMAIN Current["details"][2]))
       ELSE UNCHANGED << processed, writes >>
    /\ npc' = "u_notification"
    /\ UNCHANGED << rec_idx, processed_list >>
    /\ NormFrame

\* lines 194-197: the value whose .items() is taken, or ok = FALSE when
\* json.loads raises
NotificationSettings(user) ==
    IF user["notification_settings"][1] = "str"
    THEN JsonLoads(user["notification_settings"][2])
    ELSE [ok |-> TRUE, val |-> user["notification_settings"]]

\* lines 192-202: "absent", "caught" (json.JSONDecodeError / TypeError),
\* "flatten", or "AttributeError": .items() of a value that is no dict,
\* which the except clause does not name
NotificationOutcome(user) ==
    IF "notification_settings" \notin DOMAIN user THEN "absent"
    ELSE IF ~NotificationSettings(user).ok THEN "caught"
    ELSE IF NotificationSettings(user).val[1] = "dict" THEN "flatten"
    ELSE "AttributeError"

\* lines 192-202
UserNotification ==
    /\ npc = "u_notification"
    /\ IF NotificationOutcome(Current) = "flatten"
       THEN /\ processed' =
                  Flatten(processed, "notification_",
                          NotificationSettings(Current).val[2],
                          DOMAIN NotificationSettings(Current).val[2])
            /\ writes' =
                  Written(writes,
                          Prefixed("notification_",
                                   DOMAIN NotificationSettings(Current).val[2]))
       ELSE UNCHANGED << processed, writes >>
    /\ IF NotificationOutcome(Current) = "AttributeError"
       THEN raised' = "AttributeError" /\ npc' = "raised"
       ELSE raised' = raised /\ npc' = "u_dates"
    /\ UNCHANGED << records_in, rec_idx, processed_list, date_idx >>
    /\ UNCHANGED << transport_vars, client_vars, users_vars,
                    json_error_is_request_exception >>

\* lines 205-211
UserDate ==
    /\ npc = "u_dates"
    /\ ConvertDate(UserDateFields, "u_append")

\* lines 213-215: append, then the next user or return
UserAppend ==
    /\ npc = "u_append"
    /\ processed_list' = Append(processed_list, processed)
    /\ rec_idx' = IF rec_idx < Len(records_in) THEN rec_idx + 1 ELSE rec_idx
    /\ npc' = IF rec_idx < Len(records_in) THEN "u_copy" ELSE "done"
    /\ UNCHANGED << processed, writes >>
    /\ NormFrame

(* ---------------------------- specifications --------------------------- *)

Optional(S) == {None} \cup {Some(v) : v \in S}

WithOpt(d, k, opt) == IF opt = None THEN d ELSE Put(d, k, opt[1])

BaseLimits == {1, 500, 1000, 1500}

BaseOffsets == {0, 50}

Targets == {1, 2, MaxIter, 1000, 1001, 2500}

\* the post_data mappings lines 453-463 build, with or without each entry
BaseRequests ==
    {WithOpt(WithOpt(WithOpt(EmptyDict, "limit", l), "offset", o), "user_id", u) :
        l \in Optional(BaseLimits), o \in Optional(BaseOffsets),
        u \in Optional({7})}

TransportIdle ==
    /\ api_pc = "idle"
    /\ current_post_data = None
    /\ retries = DEFAULT_RETRIES
    /\ attempt = 0
    /\ http_log = << >>
    /\ sleeps = << >>
    /\ api_errors = << >>
    /\ api_result = None
    /\ st_errors = << >>

BulkOff ==
    /\ ppc = "off"
    /\ post_data = EmptyDict
    /\ total_limit = 0
    /\ all_articles = << >>
    /\ total_fetched = 0
    /\ page = 1
    /\ current_limit = 0
    /\ requests = << >>
    /\ responses = << >>
    /\ rate_sleeps = 0
    /\ caller_pc = "done"
    /\ articles_data = << >>
    /\ status_text = << >>
    /\ progress_bar = << >>

UsersOff ==
    /\ upc = "off"
    /\ user_ids = << >>
    /\ batch_size = 1
    /\ batch_i = 0
    /\ all_users_data = << >>
    /\ chunk_calls = << >>
    /\ chunk_results = << >>
    /\ users_sleeps = 0

NormOff ==
    /\ npc = "off"
    /\ records_in = << >>
    /\ rec_idx = 1
    /\ processed = EmptyDict
    /\ date_idx = 1
    /\ processed_list = << >>
    /\ writes = << >>
    /\ raised = "none"

\* bulk_fetch_articles(post_data, total_limit, progress_callback) has run
\* lines 93-98, called from line 480
Init ==
    /\ json_error_is_request_exception \in BOOLEAN
    /\ TransportIdle
    /\ ppc = "loop"
    /\ post_data \in BaseRequests
    /\ total_limit \in Targets
    /\ CeilDiv(total_limit, ApiLimit(post_data)) <= MaxIter
    /\ all_articles = << >>
    /\ total_fetched = 0
    /\ page = 1
    /\ current_limit = 0
    /\ requests = << >>
    /\ responses = << >>
    /\ rate_sleeps = 0
    /\ caller_pc = "bulk"
    /\ articles_data = << >>
    /\ status_text = << >>
    /\ progress_bar = << >>
    /\ UsersOff
    /\ NormOff

Next ==
    \/ BulkIterate
    \/ BulkExit
    \/ BulkReturned
    \/ ResponseOk
    \/ NetworkFailure
    \/ DecodeFailure
    \/ BulkFailed
    \/ BulkEmpty
    \/ BulkShort
    \/ BulkContinue

Spec == Init /\ [][Next]_vars

\* the payloads make_api_request is called with directly
CallPayloads ==
    {None, Some(EmptyDict), Some([limit |-> 1]), Some([user_ids |-> "1,2"])}

\* one direct call make_api_request(endpoint, post_data, retries)
InitApi ==
    /\ json_error_is_request_exception \in BOOLEAN
    /\ api_pc = "running"
    /\ current_post_data \in CallPayloads
    /\ retries \in 1 .. MaxRetries
    /\ attempt = 0
    /\ http_log = << >>
    /\ sleeps = << >>
    /\ api_errors = << >>
    /\ api_result = None
    /\ st_errors = << >>
    /\ BulkOff
    /\ UsersOff
    /\ NormOff

NextApi ==
    \/ ResponseOk
    \/ NetworkFailure
    \/ DecodeFailure

SpecApi == InitApi /\ [][NextApi]_vars

\* the identifiers "1", ..., "n"
IdList(n) == [i \in 1 .. n |-> ToString(i)]

IdLists == {IdList(n) : n \in (1 .. MaxIds) \cup {25}}

\* batch_size: st.number_input(min_value=1, max_value=100)
BatchSizes == {1, 2, 3, 10, 100}

\* line 326 holds: the batch loop is about to start (lines 327-330)
InitUsers ==
    /\ json_error_is_request_exception \in BOOLEAN
    /\ TransportIdle
    /\ BulkOff
    /\ NormOff
    /\ upc = "loop"
    /\ user_ids \in IdLists
    /\ batch_size \in BatchSizes
    /\ CeilDiv(Len(user_ids), batch_size) <= MaxChunks
    /\ batch_i = 0
    /\ all_users_data = << >>
    /\ chunk_calls = << >>
    /\ chunk_results = << >>
    /\ users_sleeps = 0

NextUsers ==
    \/ UsersIterate
    \/ UsersExit
    \/ ResponseOk
    \/ NetworkFailure
    \/ DecodeFailure
    \/ UsersChunkOk
    \/ UsersChunkFailed

SpecUsers == InitUsers /\ [][NextUsers]_vars

\* the mapping d with the entries of `extra` set as well
WithAll(d, extra) ==
    [k \in (DOMAIN d) \cup (DOMAIN extra) |->
        IF k \in DOMAIN extra THEN extra[k] ELSE d[k]]

\* values of an 'author' field: mappings, JSON text, other JSON values
AuthorValues ==
    {VNone, VDict(AuthorMapping), VDict([id |-> VStr("7")]), VDict(EmptyDict),
     VStr(AUTHOR_JSON), VStr("{bad"), VStr("[1, 2]"), VInt("5")}

CategoryValues == {VDict([name |-> VStr("news"), id |-> VStr("3")]), VStr("news")}

\* values of a date field: seconds, text, empty values, milliseconds, a
\* value beyond the platform's time range, a value that is no number
TimeValues ==
    {VNone, VInt("0"), VInt("1700000000"), VStr("1700000000"), VStr("0"),
     VStr("abc"), VStr(""), VInt("1700000000000"),
     VInt("1000000000000000000"), VList(<< VInt("1"), VInt("2") >>)}

\* the other two date fields, absent or present together
OtherDates(first, second) ==
    {EmptyDict,
     (first :> VInt("1700000000")) @@ (second :> VStr("abc"))}

\* top-level keys that bear the names of derived keys
ArticlePresets ==
    {EmptyDict,
     [author_username |-> VStr("kept"), author_id |-> VStr("kept"),
      category_name |-> VStr("kept"), time_readable |-> VStr("kept")]}

BaseArticle == [id |-> VStr("101"), title |-> VStr("hello")]

RawArticles ==
    {WithAll(WithAll(WithOpt(WithOpt(WithOpt(BaseArticle, "author", a),
                                     "category", c), "time", tm), od), pre) :
        a \in Optional(AuthorValues), c \in Optional(CategoryValues),
        tm \in Optional(TimeValues),
        od \in OtherDates("created_at", "updated_at"),
        pre \in ArticlePresets}

DetailsValues == {VDict([city |-> VStr("Oslo")]), VStr("x")}

\* values of 'notification_settings': a mapping, JSON text of a mapping,
\* JSON text of other values, text that is no JSON, and values of other types
NotificationValues ==
    {VDict(NotificationMapping), VStr(NOTIFICATION_JSON), VStr("[1, 2]"),
     VStr("5"), VStr("null"), VStr("{bad"), VStr(""), VNone, VInt("5"),
     VList(<< VInt("1"), VInt("2") >>)}

UserPresets ==
    {EmptyDict,
     [details_city |-> VStr("kept"), notification_e_liked |-> VStr("kept"),
      lastseen_readable |-> VStr("kept")]}

BaseUser == [user_id |-> VStr("7"), username |-> VStr("ann")]

RawUsers ==
    {WithAll(WithAll(WithOpt(WithOpt(WithOpt(BaseUser, "details", d),
                                     "notification_settings", ns),
                             "lastseen", tm), od), pre) :
        d \in Optional(DetailsValues), ns \in Optional(NotificationValues),
        tm \in Optional(TimeValues),
        od \in OtherDates("last_data_update", "point_day_expire"),
        pre \in UserPresets}

\* `count` copies of one record
Repeat(rec, count) == [i \in 1..count |-> rec]

\* the lists of 1..MaxRecords records with one record of `raw` among
\* copies of `plain`
RecordLists(raw, plain) ==
    UNION {{Repeat(plain, before) \o << r >> \o Repeat(plain, len - 1 - before) :
               r \in raw, before \in 0..(len - 1)} :
           len \in 1..MaxRecords}

InitNorm ==
    /\ json_error_is_request_exception \in BOOLEAN
    /\ TransportIdle
    /\ BulkOff
    /\ UsersOff
    /\ \/ npc = "a_copy" /\ records_in \in RecordLists(RawArticles, BaseArticle)
       \/ npc = "u_copy" /\ records_in \in RecordLists(RawUsers, BaseUser)
    /\ rec_idx = 1
    /\ processed = EmptyDict
    /\ date_idx = 1
    /\ processed_list = << >>
    /\ writes = EmptyDict
    /\ raised = "none"

NextNorm ==
    \/ ArticleCopy
    \/ ArticleAuthor
    \/ ArticleFlatten
    \/ ArticleCategory
    \/ ArticleDate
    \/ ArticleAppend
    \/ UserCopy
    \/ UserDetails
    \/ UserNotification
    \/ UserDate
    \/ UserAppend

SpecNorm == InitNorm /\ [][NextNorm]_vars

(* ------------------------------- claims -------------------------------- *)

\* the records of pages 1..k as the transport delivered them, in order
Delivered(k) ==
    SelectSeq([i \in 1 .. k |->
                  [page |-> i,
                   n |-> IF Succeeded(responses[i])
                         THEN BatchLen(responses[i]) ELSE 0]],
              LAMBDA b : b.n > 0)

LastPage == Len(responses)

\* C1 - Partial-failure preservation: when the call for page k fails (the
\* transport returns None, or a payload whose api_status is not 200), the
\* loop has stopped, no further request has been issued, and the returned
\* list is exactly the records of pages 1..k-1 in order.
PartialFailurePreserved ==
    \A k \in 1 .. Len(responses) :
        ~Succeeded(responses[k]) =>
            /\ k = Len(responses)
            /\ Len(requests) = k
            /\ ppc = "returned"
            /\ api_pc = "idle"
            /\ all_articles = Delivered(k - 1)
            /\ NumRecords(all_articles) = total_fetched

PartialFailureWitness ==
    /\ ppc = "returned"
    /\ LastPage >= 3
    /\ ~Succeeded(responses[LastPage])
    /\ Len(all_articles) = LastPage - 1
    /\ NumRecords(all_articles) >= 2 * API_CEILING

\* C2 - Ceiling invariant: every request handed to the transport, and every
\* HTTP attempt made for it, has a limit between 1 and 1000.
CeilingInvariant ==
    /\ \A i \in 1 .. Len(requests) :
          requests[i].limit >= 1 /\ requests[i].limit <= 1000
    /\ \A j \in 1 .. Len(http_log) :
          http_log[j].data[1].limit >= 1 /\ http_log[j].data[1].limit <= 1000

CeilingWitness ==
    /\ Get(post_data, "limit", 0) > 1000
    /\ total_limit > 1000
    /\ Len(http_log) >= 1
    /\ http_log[1].data[1].limit = 1000

ExhaustionSignal ==
    \A k \in 1 .. Len(responses) :
        (Succeeded(responses[k]) /\ BatchLen(responses[k]) < requests[k].limit) =>
            /\ k = Len(responses)
            /\ Len(requests) = k
            /\ ppc = "returned"
            /\ api_pc = "idle"
            /\ all_articles = Delivered(k)

ExhaustionWitness ==
    /\ ppc = "returned"
    /\ LastPage >= 2
    /\ Succeeded(responses[LastPage])
    /\ BatchLen(responses[LastPage]) > 0
    /\ BatchLen(responses[LastPage]) < requests[LastPage].limit
    /\ total_fetched < total_limit
    /\ all_articles[Len(all_articles)] =
          [page |-> LastPage, n |-> BatchLen(responses[LastPage])]

\* every answer so far succeeded with exactly as many records as asked for
ExactServer ==
    \A i \in 1 .. Len(responses) :
        Succeeded(responses[i]) /\ BatchLen(responses[i]) = requests[i].limit

\* T records from ceil(T/1000) calls at offsets 0, 1000, 2000, ... with
\* limits min(1000, T - fetched so far)
AssembledInCeilingPages ==
    /\ NumRecords(all_articles) = total_limit
    /\ Len(requests) = CeilDiv(total_limit, 1000)
    /\ \A i \in 1 .. Len(requests) :
          /\ requests[i].offset = 1000 * (i - 1)
          /\ requests[i].limit =
                Min(1000, total_limit - NumRecords(Delivered(i - 1)))

RetryBound ==
    /\ Len(http_log) <= retries
    /\ \A i \in 1 .. Len(http_log) :
          /\ i < Len(http_log) => http_log[i].outcome = "network"
          /\ http_log[i].outcome = "ok" =>
                i = Len(http_log) /\ api_pc = "returned" /\ api_result # None

\* C7 - Backoff schedule: the i-th wait of a call (i from 0) lasts 2^i, one
\* wait separates two consecutive attempts, and none follows the last
\* attempt; three failed attempts wait 1 then 2.
BackoffSchedule ==
    /\ sleeps = [i \in 1 .. Len(sleeps) |-> 2 ^ (i - 1)]
    /\ Len(sleeps) <= retries - 1
    /\ api_pc = "running" => Len(sleeps) = Len(http_log)
    /\ api_pc = "returned" => Len(sleeps) = Len(http_log) - 1
    /\ (api_pc = "returned" /\ Len(http_log) = 3) => sleeps = << 1, 2 >>

BackoffWitness ==
    /\ api_pc = "returned"
    /\ retries = 3
    /\ \A i \in 1 .. 3 : Len(http_log) = 3 /\ http_log[i].outcome = "network"
    /\ sleeps = << 1, 2 >>
    /\ api_result = None

\* C8 - Decode failure is terminal: an attempt whose 2xx body is not
\* well-formed ends the call at once: None is returned, a diagnostic is
\* shown, no wait follows and no further attempt is made.
DecodeFailureTerminal ==
    \A i \in 1 .. Len(http_log) :
        http_log[i].outcome = "decode" =>
            /\ i = Len(http_log)
            /\ api_pc = "returned"
            /\ api_result = None
            /\ api_errors # << >>
            /\ Len(sleeps) = i - 1

\* C9 - Transport outcome and diagnostic: a call ends with a payload or with
\* None; a call that returns None has shown a diagnostic, a call that returns
\* a payload has shown none, and no diagnostic is shown before the call ends.
TransportOutcome ==
    /\ api_pc \in {"idle", "running", "returned"}
    /\ api_pc = "running" => api_errors = << >>
    /\ api_pc = "returned" =>
          /\ api_result = None => Len(api_errors) = 1
          /\ api_result # None => api_errors = << >>

TransportOutcomeWitness ==
    /\ api_pc = "returned"
    /\ retries >= 2
    /\ Len(http_log) = retries
    /\ api_result = None
    /\ Len(api_errors) = 1

ProgressEstimate ==
    \A i \in 1 .. Len(requests) :
        /\ status_text[i] =
              FetchingMessage(i, requests[i].offset, requests[i].limit)
        /\ progress_bar[i].num * total_limit =
              progress_bar[i].den
                  * Min(NumRecords(Delivered(i - 1)), total_limit)

\* C20 - Cursor arithmetic: each request's offset is the base offset plus the
\* number of records received in the earlier iterations, total_fetched is
\* the length of the accumulated list, offsets strictly increase, and the
\* page number starts at 1 and grows by one per iteration.
CursorArithmetic ==
    /\ total_fetched = NumRecords(all_articles)
    /\ ppc = "call" => page = Len(requests)
    /\ ppc = "loop" => page = Len(requests) + 1
    /\ \A i \in 1 .. Len(requests) :
          /\ requests[i].offset =
                CurrentOffset(post_data) + NumRecords(Delivered(i - 1))
          /\ i > 1 => requests[i].offset > requests[i - 1].offset
          /\ status_text[i].page = i

CursorWitness ==
    /\ ppc = "call"
    /\ page = 3
    /\ CurrentOffset(post_data) = 50
    /\ total_fetched = 2001
    /\ requests[3].offset = 2051

\* number of chunks range(0, n, b) makes
NumChunks == CeilDiv(Len(user_ids), batch_size)

UsersLoopEnded == upc \in {"done", "raised"}

\* the identifiers of chunks 1..k put back together
RECURSIVE ChunksConcat(_)
ChunksConcat(k) ==
    IF k = 0 THEN << >> ELSE ChunksConcat(k - 1) \o chunk_calls[k].ids

\* C11 - Batch completeness: the loop issues exactly ceil(n/b) calls, chunk j
\* carries ids[(j-1)*b+1 .. min(j*b, n)] joined by commas, every chunk but
\* the last has b identifiers, and the chunks concatenated are ids again.
BatchCompleteness ==
    /\ Len(chunk_calls) <= NumChunks
    /\ UsersLoopEnded => Len(chunk_calls) = NumChunks
    /\ \A j \in 1 .. Len(chunk_calls) :
          /\ chunk_calls[j].ids =
                [x \in 1 .. (Min(j * batch_size, Len(user_ids))
                               - (j - 1) * batch_size) |->
                    user_ids[(j - 1) * batch_size + x]]
          /\ j < NumChunks => Len(chunk_calls[j].ids) = batch_size
          /\ Len(chunk_calls[j].ids) >= 1
          /\ chunk_calls[j].post_data.user_ids = Join(chunk_calls[j].ids)
    /\ UsersLoopEnded => ChunksConcat(Len(chunk_calls)) = user_ids
    /\ (Len(user_ids) = 25 /\ batch_size = 10 /\ Len(chunk_calls) = 3) =>
          /\ chunk_calls[1].post_data.user_ids = "1,2,3,4,5,6,7,8,9,10"
          /\ chunk_calls[2].post_data.user_ids =
                "11,12,13,14,15,16,17,18,19,20"
          /\ chunk_calls[3].post_data.user_ids = "21,22,23,24,25"

BatchCompletenessWitness ==
    /\ UsersLoopEnded
    /\ Len(user_ids) = 25
    /\ batch_size = 10
    /\ Len(chunk_calls) = 3
    /\ chunk_calls[3].post_data.user_ids = "21,22,23,24,25"

\* the users of the successful chunks among 1..k, in chunk order
UsersDelivered(k) ==
    SelectSeq([j \in 1 .. k |->
                  [chunk |-> j,
                   n |-> IF Succeeded(chunk_results[j])
                         THEN UsersLen(chunk_results[j]) ELSE 0]],
              LAMBDA c : c.n > 0)

\* C12 - Best-effort accumulation: a failed chunk adds nothing and stops no
\* later chunk; the merged list is the users of exactly the successful
\* chunks, in chunk order, and when the loop ends every chunk was requested.
BestEffortAccumulation ==
    /\ all_users_data = UsersDelivered(Len(chunk_results))
    /\ UsersLoopEnded =>
          Len(chunk_results) = NumChunks /\ Len(chunk_calls) = NumChunks

BestEffortWitness ==
    /\ UsersLoopEnded
    /\ Len(chunk_results) = 3
    /\ ~Succeeded(chunk_results[1])
    /\ Succeeded(chunk_results[2])
    /\ ~Succeeded(chunk_results[3])
    /\ all_users_data = << [chunk |-> 2, n |-> batch_size] >>

\* the chunks whose call failed
FailedChunks ==
    {j \in 1 .. Len(chunk_results) : ~Succeeded(chunk_results[j])}

\* C13 - Failure diagnostics: no chunk failure is silent: by the time the
\* next chunk starts or the loop ends, each failed chunk has produced a
\* diagnostic of its own.
ChunkFailuresReported ==
    Len(st_errors) >= Cardinality(FailedChunks)

\* the article in hand has been through lines 147-157
AuthorExpanded == npc \in {"a_category", "a_dates", "a_append"}

\* C18: for an article whose author is a mapping, author_username and
\* author_email are assigned exactly once each and hold the mapping's
\* username and email, and every other key k of the mapping gives
\* author_<k>, assigned once, with the mapping's value.
AuthorKeyExclusion ==
    (/\ AuthorExpanded
     /\ "author" \in DOMAIN Current
     /\ Current["author"][1] = "dict")
    => /\ Get(writes, "author_username", 0) = 1
       /\ Get(writes, "author_email", 0) = 1
       /\ "username" \in DOMAIN Current["author"][2]
            => processed["author_username"] = Current["author"][2]["username"]
       /\ "email" \in DOMAIN Current["author"][2]
            => processed["author_email"] = Current["author"][2]["email"]
       /\ \A k \in (DOMAIN Current["author"][2]) \ {"username", "email"} :
            /\ Get(writes, "author_" \o k, 0) = 1
            /\ processed["author_" \o k] = Current["author"][2][k]

\* an article with the full author mapping has been normalized
AuthorKeyExclusionWitness ==
    /\ npc = "a_append"
    /\ "author" \in DOMAIN Current
    /\ Current["author"] = VDict(AuthorMapping)
    /\ processed["author_username"] = VStr("ann")
    /\ processed["author_id"] = VStr("7")
    /\ Get(writes, "author_username", 0) = 1

\* the record in hand is complete and about to be appended
Normalized == npc \in {"a_append", "u_append"}

\* C15: every top-level key of the raw record is in the normalized record
\* with the value it had, whatever the names of the raw record's keys.
FlattenLossless ==
    Normalized
    => \A k \in DOMAIN Current :
           k \in DOMAIN processed /\ processed[k] = Current[k]

\* C15, second half: no step changes the list handed in.
InputNotMutated == [][records_in' = records_in]_vars

\* the same, for raw records none of whose keys bears a derived key's name
FlattenLosslessNoClash ==
    (Normalized /\ \A k \in DOMAIN Current : Get(writes, k, 0) = 0)
    => \A k \in DOMAIN Current :
           k \in DOMAIN processed /\ processed[k] = Current[k]

\* C16: an author given as JSON text of a mapping yields the derived
\* fields of that mapping: author_username, author_email and author_<k>
\* for every other key k; an author text that does not decode yields no
\* author_<k> and the author field keeps its value.
JsonAuthorEquivalence ==
    (/\ AuthorExpanded
     /\ "author" \in DOMAIN Current
     /\ Current["author"][1] = "str")
    => /\ processed["author"] = Current["author"]
       /\ (/\ JsonLoads(Current["author"][2]).ok
           /\ JsonLoads(Current["author"][2]).val[1] = "dict")
          => /\ processed["author_username"] =
                   Get(JsonLoads(Current["author"][2]).val[2], "username",
                       VStr(""))
             /\ processed["author_email"] =
                   Get(JsonLoads(Current["author"][2]).val[2], "email",
                       VStr(""))
             /\ \A k \in AuthorFlattenKeys(JsonLoads(Current["author"][2]).val[2]) :
                   /\ Get(writes, "author_" \o k, 0) = 1
                   /\ processed["author_" \o k] =
                         JsonLoads(Current["author"][2]).val[2][k]
       /\ (~JsonLoads(Current["author"][2]).ok /\ npc = "a_category")
          => DOMAIN writes = {"author_username", "author_email"}

\* the part of C16 that the code keeps: the identity pair of a JSON text
\* author, and nothing expanded when the text does not decode
JsonAuthorIdentityOnly ==
    (/\ AuthorExpanded
     /\ "author" \in DOMAIN Current
     /\ Current["author"][1] = "str")
    => /\ processed["author"] = Current["author"]
       /\ processed["author_username"] =
             extract_author_info(Current["author"])[1]
       /\ processed["author_email"] =
             extract_author_info(Current["author"])[2]
       /\ npc = "a_category"
          => DOMAIN writes = {"author_username", "author_email"}

\* the date fields of the kind of record in hand
DateFieldsInHand ==
    IF npc = "a_append"
    THEN {ArticleDateFields[i] : i \in 1..Len(ArticleDateFields)}
    ELSE {UserDateFields[i] : i \in 1..Len(UserDateFields)}

\* the field is missing, empty, or int() does not accept it
NoInteger(rec, field) ==
    \/ field \notin DOMAIN rec
    \/ rec[field] \in {VNone, VStr("")}
    \/ ~IntOf(rec[field]).ok

\* C17: the date conversion raises nothing; a date field that is missing,
\* empty or no integer gets no <field>_readable; a date field that parses
\* as an integer gets <field>_readable, assigned once; the field itself
\* keeps its value.
TimestampRobustness ==
    /\ raised \notin {"OSError", "OverflowError"}
    /\ Normalized
       => \A f \in DateFieldsInHand :
            /\ f \in DOMAIN Current
                 => f \in DOMAIN processed /\ processed[f] = Current[f]
            /\ NoInteger(Current, f) => Get(writes, f \o "_readable", 0) = 0
            /\ ~NoInteger(Current, f)
                 => /\ Get(writes, f \o "_readable", 0) = 1
                    /\ (f \o "_readable") \in DOMAIN processed

\* what lines 166-172 and 205-211 do keep: the field is never changed, and
\* <field>_readable is assigned once exactly when the value is true, is an
\* integer and is a time the platform can convert
TimestampConversion ==
    Normalized
    => \A f \in DateFieldsInHand :
         /\ f \in DOMAIN Current
              => f \in DOMAIN processed /\ processed[f] = Current[f]
         /\ Get(writes, f \o "_readable", 0) =
              (IF DateOutcome(Current, f) = "add" THEN 1 ELSE 0)

\* the user in hand has been through lines 192-202
NotificationDone == npc \in {"u_dates", "u_append"}

\* C19: process_users_data raises nothing over notification_settings,
\* whatever its value; when the value is not in the end a mapping, no
\* notification_<key> is assigned and the field keeps its value.
NormalizerNeverRaises ==
    /\ raised # "AttributeError"
    /\ (/\ NotificationDone
        /\ "notification_settings" \in DOMAIN Current
        /\ NotificationOutcome(Current) # "flatten")
       => /\ processed["notification_settings"] =
                Current["notification_settings"]
          /\ \A k \in DOMAIN NotificationMapping :
                Get(writes, "notification_" \o k, 0) = 0

\* C21: a run of bulk_fetch_articles that issued n requests has paused
\* n - 1 times: it pauses between two requests only, never after the last.
StopBeforePause ==
    (ppc = "returned" /\ Len(requests) >= 1)
    => rate_sleeps = Len(requests) - 1

\* what lines 134-135 do keep: one pause and one page increment after
\* every page that came back full, the one that reaches the target included
PauseAfterEveryFullPage ==
    /\ page = rate_sleeps + 1
    /\ ppc = "returned"
       => rate_sleeps = Len(requests) -
            (IF total_fetched >= total_limit THEN 0 ELSE 1)

\* every request of the run has the base request's entries other than
\* limit and offset, and on the wire the credential besides
FreshCopies ==
    /\ \A i \in 1..Len(requests) :
         /\ DOMAIN requests[i] = (DOMAIN post_data) \cup {"limit", "offset"}
         /\ \A k \in (DOMAIN post_data) \ {"limit", "offset"} :
              requests[i][k] = post_data[k]
    /\ ppc = "call"
       => \A j \in 1..Len(http_log) :
            /\ DOMAIN http_log[j].data[1] =
                  (DOMAIN requests[Len(requests)]) \cup {"server_key"}
            /\ \A k \in DOMAIN requests[Len(requests)] :
                  http_log[j].data[1][k] = requests[Len(requests)][k]

\* C22: no step of bulk_fetch_articles changes the caller's base request,
\* and every per-page request is a copy that has the base request's filter
\* entries and differs from it in limit, offset and server_key only.
BaseRequestNotMutated == [][post_data' = post_data /\ FreshCopies']_vars

\* a run of two pages over a base request with limit, offset and filter:
\* the requests differ from the base, which has no server_key
BaseRequestWitness ==
    /\ ppc = "returned"
    /\ Len(requests) >= 2
    /\ DOMAIN post_data = {"limit", "offset", "user_id"}
    /\ requests[2].offset # post_data.offset
    /\ requests[2].limit # post_data.limit
    /\ "server_key" \in DOMAIN current_post_data[1]

\* the chunk number shown never exceeds the total shown, and the total
\* shown is the number of calls the loop issues
ChunkNumbering ==
    /\ \A j \in 1..Len(status_text) :
         /\ status_text[j].batch = j
         /\ status_text[j].batch <= status_text[j].total
         /\ status_text[j].total = NumChunks
    /\ Len(chunk_calls) <= NumChunks
    /\ UsersLoopEnded => Len(chunk_calls) = NumChunks

\* C23: every fraction (i + b) / n the users batch loop passes to the
\* progress display lies in [0, 1], and the chunk number shown never
\* exceeds the total shown, which is the number of calls issued.
BatchProgressInRange ==
    /\ \A j \in 1..Len(progress_bar) :
         /\ 0 <= progress_bar[j].num
         /\ progress_bar[j].num <= progress_bar[j].den
    /\ ChunkNumbering

\* what line 346 does keep: the fraction is in (0, 1] after every chunk
\* but the last, and after the last one when b divides n
ProgressInRangeBeforeLast ==
    \A j \in 1..Len(progress_bar) :
        (j < NumChunks \/ Len(user_ids) % batch_size = 0)
        => /\ 0 < progress_bar[j].num
           /\ progress_bar[j].num <= progress_bar[j].den

====
